---- MODULE Spec2Model ----
(***************************************************************************)
(* Model of PhcNguyen/PyServer:                                            *)
(*   sources/application/server/tcpserver.py  TcpServer, ClientHandler     *)
(*   src/manager/algorithm.py                 AlgorithmHandler.handle_data *)
(*                                                                         *)
(* The server runs on one asyncio event loop: a coroutine runs without     *)
(* interruption from one await to the next, so every action below is one   *)
(* such segment of a coroutine, and the pc of a task names the await it is *)
(* suspended at.                                                           *)
(***************************************************************************)
EXTENDS Integers, Sequences, FiniteSets, TLC

\* ---------------------------------------------------------------- bounds
\* Calls and connections are numbered in the order they are made.
NumConns == 2       \* connections the peers open over a run
NumStarts == 2      \* calls of TcpServer.start() over a run
NumStops == 2       \* calls of TcpServer.stop() over a run
NumIps == 1         \* distinct peer addresses

\* TcpServer.MAX_CONNECTIONS, inherited from NetworkConfigs (the value is
\* configuration).
MAX_CONNECTIONS == 1

Conns == 1..NumConns
Starters == 1..NumStarts
Stoppers == 1..NumStops
IPs == 1..NumIps

VARIABLES
    \* TcpServer
    running,            \* self.running
    startPc,            \* position of each start() call
    listeners,          \* listening sockets bound by asyncio.start_server
    unblockTasks,       \* firewall.auto_unblock_ips tasks created
    stopPc,             \* position of each stop() call
    close_tasks,        \* close_all_connections: the sessions its gather closes
    closePc,            \* position of each close_connection task of a gather
    \* FireWall
    block_ips,          \* firewall.block_ips
    \* ClientHandler and the connections
    hPc,                \* position of each handle_client task
    peer,               \* client_address[0] of each connection (0: none yet)
    sock,               \* the connection's socket: "none", "open" (nothing sent
                        \* yet), "written" (open, bytes sent to the peer), "closed"
    created,            \* connections a TcpSession was constructed for
    connected,          \* session.is_connected
    client_connections, \* self.client_connections (sessions named by connection)
    log,                \* AsyncLogger: <<level, message, caller>> delivered
    \* AlgorithmHandler
    public_key,         \* self.public_key
    private_key,        \* self.private_key
    client_data,        \* the bytes handle_data is called with
    caller,             \* the connection whose session calls handle_data
    dataPc,             \* "idle" before the call of handle_data, "done" after
    result,             \* what handle_data returned or raised
    \* AlgorithmHandler.__init__ and the key files
    keyPc,              \* position in _initialize_RsaKeys ("done": constructed)
    pubFile,            \* the file key_path["public"]: "missing", "partial"
                        \* (empty or cut short), or the key pair it holds
    privFile,           \* the file key_path["private"], likewise
    generating,         \* whether the test of line 34 chose to create a pair
    message_callback,   \* self.message_callback: "None" or "set"
    operatorLog,        \* messages message_callback delivered
    keyErrors           \* the exceptions the two try blocks caught

serverVars == <<running, startPc, listeners, unblockTasks, stopPc, close_tasks,
                closePc, block_ips, hPc, peer, sock, created, connected,
                client_connections, log>>

dataVars == <<public_key, private_key, client_data, caller, dataPc, result>>

keyVars == <<keyPc, pubFile, privFile, generating, message_callback, operatorLog,
             keyErrors>>

vars == <<serverVars, dataVars, keyVars>>

Range(s) == {s[i] : i \in 1..Len(s)}

\* ------------------------------------------------------------ Init
\* TcpServer.__init__ and ClientHandler.__init__: not running, no session.
InitServer ==
    /\ running = FALSE
    /\ startPc = [t \in Starters |-> "idle"]
    /\ listeners = 0
    /\ unblockTasks = 0
    /\ stopPc = [s \in Stoppers |-> "idle"]
    /\ close_tasks = [s \in Stoppers |-> <<>>]
    /\ closePc = [s \in Stoppers |-> [c \in Conns |-> "none"]]
    /\ block_ips = {}
    /\ hPc = [c \in Conns |-> "none"]
    /\ peer = [c \in Conns |-> 0]
    /\ sock = [c \in Conns |-> "none"]
    /\ created = {}
    /\ connected = [c \in Conns |-> FALSE]
    /\ client_connections = <<>>
    /\ log = {}

\* ------------------------------------------------- collaborators
\* AsyncLogger.notify / notify_error: the message is handed to the logger when
\* the coroutine is called; the caller is suspended until the await returns.
Notify(level, msg, who) == log' = log \cup {<<level, msg, who>>}

\* TcpSession.disconnect(): the session is closed and so is its channel; a
\* second call finds it closed and changes nothing.
Disconnect(c) ==
    /\ connected' = [connected EXCEPT ![c] = FALSE]
    /\ sock' = [sock EXCEPT ![c] = "closed"]

\* a faulty variant of Remove: the session is left in the list
RemoveNothing(list, x) == list

\* list.remove(x): drops the first occurrence of x.
RECURSIVE Remove(_, _)
Remove(list, x) ==
    IF list = <<>> THEN <<>>
    ELSE IF Head(list) = x THEN Tail(list)
    ELSE <<Head(list)>> \o Remove(Tail(list), x)

\* ------------------------------------------------- TcpServer.start
\* a faulty variant of StartGuard: the running check is lost
StartGuardNever(isRunning) == FALSE

\* `if self.running:`, whether start() refuses to start
StartGuard(isRunning) == isRunning

\* start(), up to its first await: the running check, then one of the two
\* notifications.
StartCall(t) ==
    /\ startPc[t] = "idle"
    /\ \A u \in 1..(t - 1) : startPc[u] # "idle"
    /\ IF StartGuard(running)
       THEN /\ Notify("info", "Server is already running.", t)
            /\ startPc' = [startPc EXCEPT ![t] = "already_notify"]
       ELSE /\ Notify("info", "Starting async server", t)
            /\ startPc' = [startPc EXCEPT ![t] = "starting_notify"]
    /\ UNCHANGED <<dataVars, keyVars>>
    /\ UNCHANGED <<running, listeners, unblockTasks, stopPc, close_tasks, closePc,
                   block_ips, hPc, peer, sock, created, connected,
                   client_connections>>

\* the 'already running' notification returns: start() returns.
StartAlreadyReturn(t) ==
    /\ startPc[t] = "already_notify"
    /\ startPc' = [startPc EXCEPT ![t] = "done"]
    /\ UNCHANGED <<dataVars, keyVars>>
    /\ UNCHANGED <<running, listeners, unblockTasks, stopPc, close_tasks, closePc,
                   block_ips, hPc, peer, sock, created, connected,
                   client_connections, log>>

\* the 'Starting' notification returns: running is set and
\* asyncio.start_server is awaited.
StartBind(t) ==
    /\ startPc[t] = "starting_notify"
    /\ running' = TRUE
    /\ startPc' = [startPc EXCEPT ![t] = "binding"]
    /\ UNCHANGED <<dataVars, keyVars>>
    /\ UNCHANGED <<listeners, unblockTasks, stopPc, close_tasks, closePc,
                   block_ips, hPc, peer, sock, created, connected,
                   client_connections, log>>

\* asyncio.start_server returns a listening server: the auto-unblock task is
\* created and serve_forever is awaited.
StartServe(t) ==
    /\ startPc[t] = "binding"
    /\ listeners' = listeners + 1
    /\ unblockTasks' = unblockTasks + 1
    /\ startPc' = [startPc EXCEPT ![t] = "serving"]
    /\ UNCHANGED <<dataVars, keyVars>>
    /\ UNCHANGED <<running, stopPc, close_tasks, closePc, block_ips, hPc, peer,
                   sock, created, connected, client_connections, log>>

\* asyncio.start_server raises OSError: notify_error, then sleep(5) (two
\* awaits in a row with nothing between them: one suspension).
StartOSError(t) ==
    /\ startPc[t] = "binding"
    /\ Notify("error", "OSError", t)
    /\ startPc' = [startPc EXCEPT ![t] = "oserror_sleep"]
    /\ UNCHANGED <<dataVars, keyVars>>
    /\ UNCHANGED <<running, listeners, unblockTasks, stopPc, close_tasks, closePc,
                   block_ips, hPc, peer, sock, created, connected,
                   client_connections>>

\* asyncio.start_server raises another exception: notify_error.
StartException(t) ==
    /\ startPc[t] = "binding"
    /\ Notify("error", "Exception", t)
    /\ startPc' = [startPc EXCEPT ![t] = "error_notify"]
    /\ UNCHANGED <<dataVars, keyVars>>
    /\ UNCHANGED <<running, listeners, unblockTasks, stopPc, close_tasks, closePc,
                   block_ips, hPc, peer, sock, created, connected,
                   client_connections>>

\* the sleep, or the error notification, returns: start() returns.
StartFaultReturn(t) ==
    /\ startPc[t] \in {"oserror_sleep", "error_notify"}
    /\ startPc' = [startPc EXCEPT ![t] = "faulted"]
    /\ UNCHANGED <<dataVars, keyVars>>
    /\ UNCHANGED <<running, listeners, unblockTasks, stopPc, close_tasks, closePc,
                   block_ips, hPc, peer, sock, created, connected,
                   client_connections, log>>

Start(t) ==
    \/ StartCall(t)
    \/ StartAlreadyReturn(t)
    \/ StartBind(t)
    \/ StartServe(t)
    \/ StartOSError(t)
    \/ StartException(t)
    \/ StartFaultReturn(t)

\* ------------------------------------------------- FireWall
\* The firewall's own policy adds addresses; its auto-unblock task removes them.
FirewallBlock(ip) ==
    /\ ip \notin block_ips
    /\ block_ips' = block_ips \cup {ip}
    /\ UNCHANGED <<dataVars, keyVars>>
    /\ UNCHANGED <<running, startPc, listeners, unblockTasks, stopPc, close_tasks,
                   closePc, hPc, peer, sock, created, connected,
                   client_connections, log>>

AutoUnblock(ip) ==
    /\ unblockTasks > 0
    /\ ip \in block_ips
    /\ block_ips' = block_ips \ {ip}
    /\ UNCHANGED <<dataVars, keyVars>>
    /\ UNCHANGED <<running, startPc, listeners, unblockTasks, stopPc, close_tasks,
                   closePc, hPc, peer, sock, created, connected,
                   client_connections, log>>

\* ------------------------------------------------- the peers
\* A listening server accepts a connection and creates the task that runs
\* handle_client(reader, writer) for it.
Accept(c, ip) ==
    /\ listeners > 0
    /\ hPc[c] = "none"
    /\ \A d \in 1..(c - 1) : hPc[d] # "none"
    /\ hPc' = [hPc EXCEPT ![c] = "accepted"]
    /\ peer' = [peer EXCEPT ![c] = ip]
    /\ sock' = [sock EXCEPT ![c] = "open"]
    /\ UNCHANGED <<dataVars, keyVars>>
    /\ UNCHANGED <<running, startPc, listeners, unblockTasks, stopPc, close_tasks,
                   closePc, block_ips, created, connected, client_connections, log>>

\* The session's read loop meets a peer close or an I/O error and clears the
\* connected flag.
PeerClose(c) ==
    /\ c \in created
    /\ connected[c]
    /\ connected' = [connected EXCEPT ![c] = FALSE]
    /\ UNCHANGED <<dataVars, keyVars>>
    /\ UNCHANGED <<running, startPc, listeners, unblockTasks, stopPc, close_tasks,
                   closePc, block_ips, hPc, peer, sock, created,
                   client_connections, log>>

\* A live session answers its peer: only a session writes to a connection.
SessionWrite(c) ==
    /\ c \in created
    /\ connected[c]
    /\ sock[c] = "open"
    /\ sock' = [sock EXCEPT ![c] = "written"]
    /\ UNCHANGED <<dataVars, keyVars>>
    /\ UNCHANGED <<running, startPc, listeners, unblockTasks, stopPc, close_tasks,
                   closePc, block_ips, hPc, peer, created, connected,
                   client_connections, log>>

\* ------------------------------------------------- ClientHandler.handle_client
\* a faulty variant of Admission: the capacity check is made first
AdmissionCapacityFirst(ip, blocked, count) ==
    IF count >= MAX_CONNECTIONS THEN "full"
    ELSE IF ip \in blocked THEN "blocked"
    ELSE "admit"

\* a faulty variant of Admission: the capacity test is > instead of >=
AdmissionOffByOne(ip, blocked, count) ==
    IF ip \in blocked THEN "blocked"
    ELSE IF count > MAX_CONNECTIONS THEN "full"
    ELSE "admit"

\* The two admission checks, in the order the code makes them.
Admission(ip, blocked, count) ==
    IF ip \in blocked THEN "blocked"
    ELSE IF count >= MAX_CONNECTIONS THEN "full"
    ELSE "admit"

\* handle_client up to its first await: the blocklist check, the capacity
\* check, the construction of the session.
HandleClient(c) ==
    /\ hPc[c] = "accepted"
    /\ LET d == Admission(peer[c], block_ips, Len(client_connections)) IN
       CASE d = "blocked" ->
              \* writer.close(); await writer.wait_closed()
              /\ sock' = [sock EXCEPT ![c] = "closed"]
              /\ hPc' = [hPc EXCEPT ![c] = "blocked_wait"]
              /\ UNCHANGED <<created, log>>
         [] d = "full" ->
              \* await AsyncLogger.notify_error(...)
              /\ Notify("error", "Connection limit exceeded", c)
              /\ hPc' = [hPc EXCEPT ![c] = "full_notify"]
              /\ UNCHANGED <<created, sock>>
         [] d = "admit" ->
              \* session = TcpSession(...); await session.connect(...)
              /\ created' = created \cup {c}
              /\ hPc' = [hPc EXCEPT ![c] = "connecting"]
              /\ UNCHANGED <<sock, log>>
    /\ UNCHANGED <<dataVars, keyVars>>
    /\ UNCHANGED <<running, startPc, listeners, unblockTasks, stopPc, close_tasks,
                   closePc, block_ips, peer, connected, client_connections>>

\* wait_closed returns for a blocked peer: handle_client returns.
BlockedReturn(c) ==
    /\ hPc[c] = "blocked_wait"
    /\ hPc' = [hPc EXCEPT ![c] = "blocked"]
    /\ UNCHANGED <<dataVars, keyVars>>
    /\ UNCHANGED <<running, startPc, listeners, unblockTasks, stopPc, close_tasks,
                   closePc, block_ips, peer, sock, created, connected,
                   client_connections, log>>

\* notify_error returns: writer.close(); await writer.wait_closed().
FullClose(c) ==
    /\ hPc[c] = "full_notify"
    /\ sock' = [sock EXCEPT ![c] = "closed"]
    /\ hPc' = [hPc EXCEPT ![c] = "full_wait"]
    /\ UNCHANGED <<dataVars, keyVars>>
    /\ UNCHANGED <<running, startPc, listeners, unblockTasks, stopPc, close_tasks,
                   closePc, block_ips, peer, created, connected,
                   client_connections, log>>

FullReturn(c) ==
    /\ hPc[c] = "full_wait"
    /\ hPc' = [hPc EXCEPT ![c] = "rejected"]
    /\ UNCHANGED <<dataVars, keyVars>>
    /\ UNCHANGED <<running, startPc, listeners, unblockTasks, stopPc, close_tasks,
                   closePc, block_ips, peer, sock, created, connected,
                   client_connections, log>>

\* session.connect returns (the session is connected): the session is
\* appended and the connection notified.
Register(c) ==
    /\ hPc[c] = "connecting"
    /\ connected' = [connected EXCEPT ![c] = TRUE]
    /\ client_connections' = Append(client_connections, c)
    /\ Notify("info", "Client connected", c)
    /\ hPc' = [hPc EXCEPT ![c] = "connected_notify"]
    /\ UNCHANGED <<dataVars, keyVars>>
    /\ UNCHANGED <<running, startPc, listeners, unblockTasks, stopPc, close_tasks,
                   closePc, block_ips, peer, sock, created>>

\* The keep-alive loop: the notification, or a sleep(1), returns and the loop
\* tests session.is_connected.  While it is set the task sleeps again; once it
\* is clear the finally block calls close_connection, which runs
\* session.disconnect() up to its await.
KeepAlive(c) ==
    /\ hPc[c] \in {"connected_notify", "sleep"}
    /\ IF connected[c]
       THEN /\ hPc' = [hPc EXCEPT ![c] = "sleep"]
            /\ UNCHANGED <<connected, sock>>
       ELSE /\ Disconnect(c)
            /\ hPc' = [hPc EXCEPT ![c] = "disconnecting"]
    /\ UNCHANGED <<dataVars, keyVars>>
    /\ UNCHANGED <<running, startPc, listeners, unblockTasks, stopPc, close_tasks,
                   closePc, block_ips, peer, created, client_connections, log>>

\* close_connection after session.disconnect() returns:
\* self.client_connections.remove(session) raises ValueError when the session
\* is not in the list, and the exception leaves handle_client.
HandlerRemove(c) ==
    /\ hPc[c] = "disconnecting"
    /\ IF c \in Range(client_connections)
       THEN /\ client_connections' = Remove(client_connections, c)
            /\ Notify("info", "Connection closed", c)
            /\ hPc' = [hPc EXCEPT ![c] = "closed_notify"]
       ELSE /\ hPc' = [hPc EXCEPT ![c] = "raised"]
            /\ UNCHANGED <<client_connections, log>>
    /\ UNCHANGED <<dataVars, keyVars>>
    /\ UNCHANGED <<running, startPc, listeners, unblockTasks, stopPc, close_tasks,
                   closePc, block_ips, peer, sock, created, connected>>

HandlerReturn(c) ==
    /\ hPc[c] = "closed_notify"
    /\ hPc' = [hPc EXCEPT ![c] = "done"]
    /\ UNCHANGED <<dataVars, keyVars>>
    /\ UNCHANGED <<running, startPc, listeners, unblockTasks, stopPc, close_tasks,
                   closePc, block_ips, peer, sock, created, connected,
                   client_connections, log>>

Handler(c) ==
    \/ HandleClient(c)
    \/ BlockedReturn(c)
    \/ FullClose(c)
    \/ FullReturn(c)
    \/ Register(c)
    \/ KeepAlive(c)
    \/ HandlerRemove(c)
    \/ HandlerReturn(c)

\* ------------------------------------------------- TcpServer.stop
\* a faulty variant of StopGuard: the running check is lost
StopGuardNever(isRunning) == FALSE

\* `if not self.running: return`, whether stop() returns at once
StopGuard(isRunning) == ~isRunning

\* stop() up to its first await.  Not running: it returns.  Running: the flag
\* is cleared and close_all_connections builds one close_connection per
\* session of the list and awaits their gather; a gather of nothing is done
\* at once, so the list is cleared and 'Server stopped.' notified in the same
\* segment.
StopCall(s) ==
    /\ stopPc[s] = "idle"
    /\ \A u \in 1..(s - 1) : stopPc[u] # "idle"
    /\ IF StopGuard(running)
       THEN /\ stopPc' = [stopPc EXCEPT ![s] = "returned"]
            /\ UNCHANGED <<running, close_tasks, closePc, client_connections, log>>
       ELSE /\ running' = FALSE
            /\ close_tasks' = [close_tasks EXCEPT ![s] = client_connections]
            /\ IF client_connections = <<>>
               THEN /\ client_connections' = <<>>
                    /\ Notify("info", "Server stopped.", s)
                    /\ stopPc' = [stopPc EXCEPT ![s] = "stopped_notify"]
                    /\ UNCHANGED closePc
               ELSE /\ closePc' = [closePc EXCEPT ![s] =
                           [c \in Conns |-> IF c \in Range(client_connections)
                                            THEN "pending" ELSE "none"]]
                    /\ stopPc' = [stopPc EXCEPT ![s] = "gather"]
                    /\ UNCHANGED <<client_connections, log>>
    /\ UNCHANGED <<dataVars, keyVars>>
    /\ UNCHANGED <<startPc, listeners, unblockTasks, block_ips, hPc, peer, sock,
                   created, connected>>

\* A gathered close_connection(session) task starts: session.disconnect() runs
\* up to its await.
CloseTaskStart(s, c) ==
    /\ closePc[s][c] = "pending"
    /\ Disconnect(c)
    /\ closePc' = [closePc EXCEPT ![s][c] = "disconnecting"]
    /\ UNCHANGED <<dataVars, keyVars>>
    /\ UNCHANGED <<running, startPc, listeners, unblockTasks, stopPc, close_tasks,
                   block_ips, hPc, peer, created, client_connections, log>>

\* ... and resumes: self.client_connections.remove(session), ValueError when
\* the session is not in the list.
CloseTaskRemove(s, c) ==
    /\ closePc[s][c] = "disconnecting"
    /\ IF c \in Range(client_connections)
       THEN /\ client_connections' = Remove(client_connections, c)
            /\ closePc' = [closePc EXCEPT ![s][c] = "done"]
       ELSE /\ closePc' = [closePc EXCEPT ![s][c] = "raised"]
            /\ UNCHANGED client_connections
    /\ UNCHANGED <<dataVars, keyVars>>
    /\ UNCHANGED <<running, startPc, listeners, unblockTasks, stopPc, close_tasks,
                   block_ips, hPc, peer, sock, created, connected, log>>

\* self.client_connections.clear()
Clear(list) == <<>>

\* Every gathered task has finished without an exception: the gather returns,
\* the list is cleared, close_all_connections returns and stop() notifies.
StopGathered(s) ==
    /\ stopPc[s] = "gather"
    /\ \A c \in Range(close_tasks[s]) : closePc[s][c] = "done"
    /\ client_connections' = Clear(client_connections)
    /\ Notify("info", "Server stopped.", s)
    /\ stopPc' = [stopPc EXCEPT ![s] = "stopped_notify"]
    /\ UNCHANGED <<dataVars, keyVars>>
    /\ UNCHANGED <<running, startPc, listeners, unblockTasks, close_tasks, closePc,
                   block_ips, hPc, peer, sock, created, connected>>

\* A gathered task has raised: the gather passes the first exception on, and
\* it leaves close_all_connections and stop(); the other tasks run on.
StopRaised(s) ==
    /\ stopPc[s] = "gather"
    /\ \E c \in Range(close_tasks[s]) : closePc[s][c] = "raised"
    /\ stopPc' = [stopPc EXCEPT ![s] = "raised"]
    /\ UNCHANGED <<dataVars, keyVars>>
    /\ UNCHANGED <<running, startPc, listeners, unblockTasks, close_tasks, closePc,
                   block_ips, hPc, peer, sock, created, connected,
                   client_connections, log>>

\* the 'Server stopped.' notification returns: stop() returns.
StopReturn(s) ==
    /\ stopPc[s] = "stopped_notify"
    /\ stopPc' = [stopPc EXCEPT ![s] = "done"]
    /\ UNCHANGED <<dataVars, keyVars>>
    /\ UNCHANGED <<running, startPc, listeners, unblockTasks, close_tasks, closePc,
                   block_ips, hPc, peer, sock, created, connected,
                   client_connections, log>>

Stop(s) ==
    \/ StopCall(s)
    \/ \E c \in Conns : CloseTaskStart(s, c)
    \/ \E c \in Conns : CloseTaskRemove(s, c)
    \/ StopGathered(s)
    \/ StopRaised(s)
    \/ StopReturn(s)

\* ------------------------------------------------- values of the handshake
\* A Python or JSON value is a record: t its type, v its content.
Absent == [t |-> "absent", v |-> ""]        \* the key is not in the dict
JStr(str) == [t |-> "str", v |-> str]
JBool(b) == [t |-> "bool", v |-> IF b THEN "true" ELSE "false"]
\* an rsa.PublicKey object, and the text a peer quotes that key as
KeyObj(k) == [t |-> "key", v |-> k]
KeyText(k) == JStr(k)

Keys == {"K1", "K2"}
Fields == {"status", "pub_key_server", "message", "action", "pub_key_client"}
EmptyDict == [f \in Fields |-> Absent]

\* dict.get(key, default)
Get(dict, key, default) == IF dict[key] = Absent THEN JStr(default) ELSE dict[key]

\* The JSON objects a peer sends.
Objects ==
    {[f \in Fields |->
        CASE f = "status" -> st
          [] f = "pub_key_server" -> ks
          [] f = "message" -> m
          [] f = "action" -> a
          [] f = "pub_key_client" -> kc] :
     st \in {Absent, JBool(TRUE), JBool(FALSE)},
     ks \in {Absent} \cup {KeyText(k) : k \in Keys},
     m \in {Absent, JStr("hello")},
     a \in {Absent, JStr("Unknown"), JStr("login")},
     kc \in {Absent} \cup {KeyText(k) : k \in Keys}}

\* The bytes a peer sends: key is the key pair they were encrypted for ("none":
\* not a ciphertext of any key), form is what the plaintext is (bytes that are
\* not UTF-8, text that is not JSON, the JSON text of an array, of a string, of
\* an object), fields the members of the object.
Forms == {"bad_utf8", "bad_json", "array", "string", "object"}
Messages ==
    {[key |-> k, form |-> "object", fields |-> o] :
        k \in Keys \cup {"none"}, o \in Objects}
    \cup {[key |-> k, form |-> fm, fields |-> EmptyDict] :
        k \in Keys \cup {"none"}, fm \in Forms \ {"object"}}

\* What a Python call ends with: a dict (kind "dict"), bytes holding the JSON
\* text of a dict (kind "bytes"), a value that is no dict (kind "list",
\* "str"), None (kind "none") or an exception (kind "raise", err its type).
Returned(kind, dict) == [kind |-> kind, dict |-> dict, err |-> ""]
Raised(err) == [kind |-> "raise", dict |-> EmptyDict, err |-> err]
NoResult == [kind |-> "pending", dict |-> EmptyDict, err |-> ""]

\* str(e) of the three exceptions decrypted_data catches.
ErrorText(err) ==
    CASE err = "DecryptionError" -> "Decryption failed"
      [] err = "UnicodeDecodeError" -> "'utf-8' codec can't decode byte"
      [] err = "JSONDecodeError" -> "Expecting value"

\* rsa.decrypt(client_data, private_key) followed by .decode("utf-8") and
\* json.loads: the value parsed, or the first exception raised.
Parse(msg, priv) ==
    IF msg.key # priv THEN Raised("DecryptionError")
    ELSE IF msg.form = "bad_utf8" THEN Raised("UnicodeDecodeError")
    ELSE IF msg.form = "bad_json" THEN Raised("JSONDecodeError")
    ELSE IF msg.form = "array" THEN Returned("list", EmptyDict)
    ELSE IF msg.form = "string" THEN Returned("str", EmptyDict)
    ELSE Returned("dict", msg.fields)

Failure(pub, text) ==
    [f \in Fields |->
        CASE f = "status" -> JBool(FALSE)
          [] f = "pub_key_server" -> KeyObj(pub)
          [] f = "message" -> JStr(text)
          [] OTHER -> Absent]

\* a faulty variant of decrypted_data: the isinstance check of line 133 is lost
decrypted_dataUnchecked(msg, pub, priv) ==
    LET parsed == Parse(msg, priv) IN
    IF parsed.kind = "raise"
    THEN Returned("dict", Failure(pub, ErrorText(parsed.err)))
    ELSE parsed

\* decrypted_data(client_data, public_key, private_key)
decrypted_data(msg, pub, priv) ==
    LET parsed == Parse(msg, priv) IN
    IF parsed.kind = "raise"
    THEN Returned("dict", Failure(pub, ErrorText(parsed.err)))
    ELSE IF parsed.kind # "dict"
    THEN Returned("dict", Failure(pub, "Invalid data format"))
    ELSE parsed

\* json.dumps(result).encode("utf-8"): an rsa.PublicKey object is not a JSON
\* type, and json.dumps raises TypeError on it.
JsonDumps(dict) ==
    IF \E f \in Fields : dict[f].t = "key"
    THEN Raised("TypeError")
    ELSE Returned("bytes", dict)

\* isAnotherKeyServer(public_key, pub_key_server): whether the key the peer
\* quotes is the server's own.
isAnotherKeyServer(pub, quoted) == quoted = KeyText(pub)

\* the dict handle_data builds at lines 104 and 114
PublicKeyAnswer(pub) ==
    [f \in Fields |->
        CASE f = "status" -> JBool(TRUE)
          [] f = "pub_key_server" -> KeyObj(pub)
          [] f = "message" -> JStr("This is your Public Key")
          [] OTHER -> Absent]

\* a faulty variant of handle_data: the status test of line 99 comes after the
\* key comparison
handle_dataStatusLast(msg, pub, priv) ==
    LET data == decrypted_data(msg, pub, priv) IN
    IF data.kind # "dict" THEN Raised("AttributeError")
    ELSE
    LET action == Get(data.dict, "action", "Unknown")
        pub_key_server == Get(data.dict, "pub_key_client", "Unknown")
    IN  IF ~isAnotherKeyServer(pub, pub_key_server)
        THEN JsonDumps(PublicKeyAnswer(pub))
        ELSE IF data.dict["status"] # Absent THEN data
        ELSE IF action = JStr("Unknown")
             THEN JsonDumps(PublicKeyAnswer(pub))
        ELSE Returned("none", EmptyDict)

\* AlgorithmHandler.handle_data(client_address, client_data)
handle_data(msg, pub, priv) ==
    LET data == decrypted_data(msg, pub, priv) IN
    IF data.kind # "dict" THEN Raised("AttributeError")   \* data.get on a non-dict
    ELSE
    LET action == Get(data.dict, "action", "Unknown")
        pub_key_server == Get(data.dict, "pub_key_client", "Unknown")
    IN  IF data.dict["status"] # Absent THEN data
        ELSE IF ~isAnotherKeyServer(pub, pub_key_server)
             THEN JsonDumps(PublicKeyAnswer(pub))
        ELSE IF action = JStr("Unknown")
             THEN JsonDumps(PublicKeyAnswer(pub))
        ELSE Returned("none", EmptyDict)

\* A session calls handle_data with the bytes it read.
HandleData ==
    /\ dataPc = "idle"
    /\ result' = handle_data(client_data, public_key, private_key)
    /\ dataPc' = "done"
    /\ UNCHANGED <<public_key, private_key, client_data, caller>>
    /\ UNCHANGED <<serverVars, keyVars>>

\* ------------------------------------------------- AlgorithmHandler.__init__
\* rsa.newkeys(512) makes a pair no file holds yet.
FreshKey == "K2"
OldKey == "K1"

\* _notify / _notify_error: the messages reach the operator only through
\* message_callback, and only when one is set.
NotifyOperator(msgs) ==
    operatorLog' = IF message_callback # "None"
                   THEN operatorLog \cup msgs ELSE operatorLog

\* an exception reaches `except Exception as error:`, which calls
\* _notify_error; msgs are that message and those _notify sent in the step
Caught(err, msgs) ==
    /\ keyErrors' = keyErrors \cup {err}
    /\ NotifyOperator(msgs)

\* line 34: the pair is created unless both files exist.
KeyCheck ==
    /\ keyPc = "check"
    /\ generating' = (pubFile = "missing" \/ privFile = "missing")
    /\ keyPc' = IF generating' THEN "newkeys" ELSE "open_read"
    /\ UNCHANGED <<public_key, private_key, pubFile, privFile, message_callback,
                   operatorLog, keyErrors>>
    /\ UNCHANGED <<serverVars, client_data, caller, dataPc, result>>

\* lines 39-40: rsa.newkeys sets both keys, or raises.
KeyGenerate(ok) ==
    /\ keyPc = "newkeys"
    /\ IF ok
       THEN /\ public_key' = FreshKey
            /\ private_key' = FreshKey
            /\ keyPc' = "open_write"
            /\ NotifyOperator({"Create a new RSA key pair"})
            /\ UNCHANGED keyErrors
       ELSE /\ Caught("newkeys", {"Create a new RSA key pair", "Error creating a key"})
            /\ keyPc' = "open_read"
            /\ UNCHANGED <<public_key, private_key>>
    /\ UNCHANGED <<pubFile, privFile, generating, message_callback>>
    /\ UNCHANGED <<serverVars, client_data, caller, dataPc, result>>

\* lines 42-43: open(public, "wb") creates or empties the file, then
\* open(private, "wb") does; either may raise.
KeyOpenWrite(okPub, okPriv) ==
    /\ keyPc = "open_write"
    /\ pubFile' = IF okPub THEN "partial" ELSE pubFile
    /\ privFile' = IF okPub /\ okPriv THEN "partial" ELSE privFile
    /\ IF okPub /\ okPriv
       THEN /\ keyPc' = "write_pub"
            /\ UNCHANGED <<keyErrors, operatorLog>>
       ELSE /\ Caught("open_write", {"Error creating a key"})
            /\ keyPc' = "open_read"
    /\ UNCHANGED <<public_key, private_key, generating, message_callback>>
    /\ UNCHANGED <<serverVars, client_data, caller, dataPc, result>>

\* line 44: the public key is written, or the write raises and leaves the
\* file cut short.
KeyWritePublic(ok) ==
    /\ keyPc = "write_pub"
    /\ IF ok
       THEN /\ pubFile' = public_key
            /\ keyPc' = "write_priv"
            /\ UNCHANGED <<keyErrors, operatorLog>>
       ELSE /\ Caught("write_pub", {"Error creating a key"})
            /\ keyPc' = "open_read"
            /\ UNCHANGED pubFile
    /\ UNCHANGED <<public_key, private_key, privFile, generating, message_callback>>
    /\ UNCHANGED <<serverVars, client_data, caller, dataPc, result>>

\* line 45: the private key is written, or the write raises.
KeyWritePrivate(ok) ==
    /\ keyPc = "write_priv"
    /\ IF ok
       THEN /\ privFile' = private_key
            /\ UNCHANGED <<keyErrors, operatorLog>>
       ELSE /\ Caught("write_priv", {"Error creating a key"})
            /\ UNCHANGED privFile
    /\ keyPc' = "open_read"
    /\ UNCHANGED <<public_key, private_key, pubFile, generating, message_callback>>
    /\ UNCHANGED <<serverVars, client_data, caller, dataPc, result>>

\* lines 52-55: both files are opened for reading; a missing file, or the
\* system, makes open raise.
KeyOpenRead(ok) ==
    /\ keyPc = "open_read"
    /\ IF ok /\ pubFile # "missing" /\ privFile # "missing"
       THEN /\ keyPc' = "load_pub"
            /\ NotifyOperator({"Download the RSA key"})
            /\ UNCHANGED keyErrors
       ELSE /\ Caught("open_read", {"Download the RSA key", "Error loading the lock"})
            /\ keyPc' = "done"
    /\ UNCHANGED <<public_key, private_key, pubFile, privFile, generating,
                   message_callback>>
    /\ UNCHANGED <<serverVars, client_data, caller, dataPc, result>>

\* line 56: self.public_key is what the public file holds; load_pkcs1 raises
\* on a file that holds no whole key.
KeyLoadPublic ==
    /\ keyPc = "load_pub"
    /\ IF pubFile # "partial"
       THEN /\ public_key' = pubFile
            /\ keyPc' = "load_priv"
            /\ UNCHANGED <<keyErrors, operatorLog>>
       ELSE /\ Caught("load_pub", {"Error loading the lock"})
            /\ keyPc' = "done"
            /\ UNCHANGED public_key
    /\ UNCHANGED <<private_key, pubFile, privFile, generating, message_callback>>
    /\ UNCHANGED <<serverVars, client_data, caller, dataPc, result>>

\* line 57: self.private_key likewise; _initialize_RsaKeys and __init__ return.
KeyLoadPrivate ==
    /\ keyPc = "load_priv"
    /\ IF privFile # "partial"
       THEN /\ private_key' = privFile
            /\ UNCHANGED <<keyErrors, operatorLog>>
       ELSE /\ Caught("load_priv", {"Error loading the lock"})
            /\ UNCHANGED private_key
    /\ keyPc' = "done"
    /\ UNCHANGED <<public_key, pubFile, privFile, generating, message_callback>>
    /\ UNCHANGED <<serverVars, client_data, caller, dataPc, result>>

\* set_message_callback: callable only on the constructed object.
SetMessageCallback ==
    /\ keyPc = "done"
    /\ message_callback = "None"
    /\ message_callback' = "set"
    /\ UNCHANGED <<public_key, private_key, keyPc, pubFile, privFile, generating,
                   operatorLog, keyErrors>>
    /\ UNCHANGED <<serverVars, client_data, caller, dataPc, result>>

\* ------------------------------------------------------------ Init
\* The handler is constructed from whole key files; no callback is set.
InitKeysLoaded ==
    /\ keyPc = "done"
    /\ pubFile = public_key
    /\ privFile = private_key
    /\ generating = FALSE
    /\ message_callback = "None"
    /\ operatorLog = {}
    /\ keyErrors = {}

\* __init__ up to the call of _initialize_RsaKeys (lines 21-29), with the key
\* files as an earlier run left them.
InitKeys ==
    /\ InitServer
    /\ public_key = "None"
    /\ private_key = "None"
    /\ client_data = [key |-> "none", form |-> "bad_json", fields |-> EmptyDict]
    /\ caller = 0
    /\ dataPc = "done"
    /\ result = NoResult
    /\ keyPc = "check"
    /\ pubFile \in {"missing", "partial", OldKey}
    /\ privFile \in {"missing", "partial", OldKey}
    /\ generating = FALSE
    /\ message_callback = "None"
    /\ operatorLog = {}
    /\ keyErrors = {}

\* No call of handle_data is under way.
InitNoData ==
    /\ public_key = "K1"
    /\ private_key = "K1"
    /\ client_data = [key |-> "none", form |-> "bad_json", fields |-> EmptyDict]
    /\ caller = 0
    /\ dataPc = "done"
    /\ result = NoResult

\* The key pair is loaded, connection 1 has a live session, and that session
\* is about to call handle_data with bytes its peer sent.
InitData ==
    /\ running = TRUE
    /\ startPc = [t \in Starters |-> IF t = 1 THEN "serving" ELSE "idle"]
    /\ listeners = 1
    /\ unblockTasks = 1
    /\ stopPc = [s \in Stoppers |-> "idle"]
    /\ close_tasks = [s \in Stoppers |-> <<>>]
    /\ closePc = [s \in Stoppers |-> [c \in Conns |-> "none"]]
    /\ block_ips = {}
    /\ hPc = [c \in Conns |-> IF c = 1 THEN "sleep" ELSE "none"]
    /\ peer = [c \in Conns |-> IF c = 1 THEN 1 ELSE 0]
    /\ sock = [c \in Conns |-> IF c = 1 THEN "open" ELSE "none"]
    /\ created = {1}
    /\ connected = [c \in Conns |-> c = 1]
    /\ client_connections = <<1>>
    /\ log = {<<"info", "Starting async server", 1>>, <<"info", "Client connected", 1>>}
    /\ \E k \in Keys : public_key = k /\ private_key = k
    /\ client_data \in Messages
    /\ caller = 1
    /\ dataPc = "idle"
    /\ result = NoResult
    /\ InitKeysLoaded

Init == InitServer /\ InitNoData /\ InitKeysLoaded

Next ==
    \/ \E t \in Starters : Start(t)
    \/ \E s \in Stoppers : Stop(s)
    \/ \E c \in Conns : Handler(c)
    \/ \E c \in Conns, ip \in IPs : Accept(c, ip)
    \/ \E c \in Conns : PeerClose(c)
    \/ \E c \in Conns : SessionWrite(c)
    \/ \E ip \in IPs : FirewallBlock(ip)
    \/ \E ip \in IPs : AutoUnblock(ip)

\* The server: start(), stop(), the connections and the firewall.
Spec == Init /\ [][Next]_vars

NextData == HandleData

\* handle_data on every message of Messages.
SpecData == InitData /\ [][NextData]_vars

NextKeys ==
    \/ KeyCheck
    \/ \E ok \in BOOLEAN : KeyGenerate(ok)
    \/ \E okPub, okPriv \in BOOLEAN : KeyOpenWrite(okPub, okPriv)
    \/ \E ok \in BOOLEAN : KeyWritePublic(ok)
    \/ \E ok \in BOOLEAN : KeyWritePrivate(ok)
    \/ \E ok \in BOOLEAN : KeyOpenRead(ok)
    \/ KeyLoadPublic
    \/ KeyLoadPrivate
    \/ SetMessageCallback

\* The construction of AlgorithmHandler, from every state of the key files and
\* with every outcome of key generation and of the file operations.
SpecKeys == InitKeys /\ [][NextKeys]_vars

\* One start() and one stop(), the connections and the firewall.
NextServing ==
    \/ StartCall(1)
    \/ StartBind(1)
    \/ StartServe(1)
    \/ Stop(1)
    \/ \E c \in Conns : Handler(c)
    \/ \E c \in Conns, ip \in IPs : Accept(c, ip)
    \/ \E c \in Conns : PeerClose(c)
    \/ \E ip \in IPs : FirewallBlock(ip)
    \/ \E ip \in IPs : AutoUnblock(ip)

\* The event loop runs every task that is ready: each handle_client task, each
\* gathered close_connection task, and stop() once it has been called.  What
\* the peers and the operator do (connect, close, call start or stop) is not
\* forced.
Fairness ==
    /\ \A c \in Conns : WF_vars(Handler(c))
    /\ \A c \in Conns : WF_vars(CloseTaskStart(1, c) \/ CloseTaskRemove(1, c))
    /\ WF_vars(StopGathered(1) \/ StopRaised(1) \/ StopReturn(1))

\* The server under fair scheduling of its tasks.
SpecFair == Init /\ [][NextServing]_vars /\ Fairness

\* ==================================================================
\* Properties
\* ==================================================================

\* the handle_client task of c has run close_connection on its session
HandlerClosed(c) == hPc[c] \in {"disconnecting", "closed_notify", "done", "raised"}
\* a close_connection task of some close_all_connections has run on it
BulkClosed(c) == \E s \in Stoppers : closePc[s][c] \in {"disconnecting", "done", "raised"}
\* the session of c has been appended to client_connections (pcs: the
\* positions of the handle_client tasks)
WasTracked(pcs, c) ==
    pcs[c] \in {"connected_notify", "sleep", "disconnecting", "closed_notify",
                "done", "raised"}

\* C1: in every reachable state the number of sessions in client_connections
\* is at most MAX_CONNECTIONS.
C1_CapacityNeverExceeded == Len(client_connections) <= MAX_CONNECTIONS

\* C2: no session has close_connection run on it both by its own handle_client
\* task and by a close_all_connections: it is destroyed by one of them only.
C2_DestroyedByOnePathOnly == \A c \in Conns : ~(HandlerClosed(c) /\ BulkClosed(c))

\* C3: a close_connection on a session that is no longer in the list ends
\* normally: none ends with the ValueError of list.remove, whoever called it.
C3_SecondCloseIsNoOp ==
    \A c \in Conns :
        /\ hPc[c] # "raised"
        /\ \A s \in Stoppers : closePc[s][c] # "raised"

\* C4: in the step in which close_all_connections returns, client_connections
\* is empty and every session that was in it has its connected flag false.
C4_CloseAllLeavesNoLiveSession ==
    [][\A s \in Stoppers :
        (stopPc[s] # "stopped_notify" /\ stopPc'[s] = "stopped_notify") =>
            /\ client_connections' = <<>>
            /\ \A c \in Conns : WasTracked(hPc', c) => ~connected'[c]]_vars

\* C5: a stop() that found running true never ends with an exception; once it
\* is past close_all_connections, 'Server stopped.' is notified and every
\* session it had to close is disconnected.
C5_StopCompletes ==
    \A s \in Stoppers :
        /\ stopPc[s] # "raised"
        /\ stopPc[s] \in {"stopped_notify", "done"} =>
              /\ <<"info", "Server stopped.", s>> \in log
              /\ \A c \in Range(close_tasks[s]) : ~connected[c]

\* C6: a start() that finds running true notifies 'already running' and
\* returns; neither of its two steps binds a socket, creates an auto-unblock
\* task, or changes running or client_connections.
C6_StartWhileRunningIsNoOp ==
    [][\A t \in Starters :
        /\ (startPc[t] = "idle" /\ startPc'[t] # "idle" /\ running) =>
              /\ startPc'[t] = "already_notify"
              /\ <<"info", "Server is already running.", t>> \in log'
              /\ UNCHANGED <<listeners, unblockTasks, running, client_connections>>
        /\ (startPc[t] = "already_notify" /\ startPc'[t] # "already_notify") =>
              /\ startPc'[t] = "done"
              /\ UNCHANGED <<listeners, unblockTasks, running, client_connections>>
      ]_vars

C6_Witness ==
    \E t \in Starters : startPc[t] = "done" /\ running /\ listeners = 1

\* C7: a connection whose peer address is in block_ips when handle_client
\* checks it gets no session, client_connections stays as it is, its socket
\* goes from open with nothing sent to closed, and handle_client returns; this
\* at any session count.
C7_BlockedPeerIsDropped ==
    /\ [](\A c \in Conns :
            hPc[c] \in {"blocked_wait", "blocked"} =>
                /\ c \notin created
                /\ c \notin Range(client_connections)
                /\ sock[c] = "closed")
    /\ [][\A c \in Conns :
            /\ (hPc[c] = "accepted" /\ hPc'[c] # "accepted" /\ peer[c] \in block_ips) =>
                  /\ hPc'[c] = "blocked_wait"
                  /\ created' = created
                  /\ client_connections' = client_connections
                  /\ sock[c] = "open" /\ sock'[c] = "closed"
                  /\ log' = log
            /\ (hPc[c] = "blocked_wait" /\ hPc'[c] # "blocked_wait") =>
                  /\ hPc'[c] = "blocked"
                  /\ UNCHANGED <<created, client_connections, sock>>
       ]_vars

\* a blocked peer dropped while the sessions are at the limit
C7_Witness ==
    \E c \in Conns :
        /\ hPc[c] = "blocked"
        /\ Len(client_connections) >= MAX_CONNECTIONS

\* C8: a connection that is not blocked and finds MAX_CONNECTIONS or more
\* sessions when handle_client checks gets no session, client_connections
\* stays as it is, the refusal is notified as an error, and then its socket
\* is closed.
C8_FullServerRejects ==
    /\ [](\A c \in Conns :
            /\ hPc[c] \in {"full_notify", "full_wait", "rejected"} =>
                  /\ c \notin created
                  /\ c \notin Range(client_connections)
                  /\ <<"error", "Connection limit exceeded", c>> \in log
            /\ hPc[c] \in {"full_wait", "rejected"} => sock[c] = "closed")
    /\ [][\A c \in Conns :
            /\ ( /\ hPc[c] = "accepted" /\ hPc'[c] # "accepted"
                 /\ peer[c] \notin block_ips
                 /\ Len(client_connections) >= MAX_CONNECTIONS ) =>
                  /\ hPc'[c] = "full_notify"
                  /\ created' = created
                  /\ client_connections' = client_connections
            /\ (hPc[c] \in {"full_notify", "full_wait"} /\ hPc'[c] # hPc[c]) =>
                  /\ hPc'[c] \in {"full_wait", "rejected"}
                  /\ UNCHANGED <<created, client_connections>>
       ]_vars

C8_Witness == \E c \in Conns : hPc[c] = "rejected" /\ sock[c] = "closed"

\* the bytes do not decrypt with the server's key, or are not UTF-8, or not
\* JSON, or the JSON text of something that is no object
Malformed(msg) == msg.key # private_key \/ msg.form # "object"

\* C9: for a message that fails decryption, is not UTF-8, is not JSON or is no
\* JSON object, handle_data returns a dict with status False, pub_key_server
\* the server's public key and a non-empty message; it raises nothing and the
\* calling session stays connected with its socket open.
C9_MalformedGetsFailureResponse ==
    (dataPc = "done" /\ caller # 0 /\ Malformed(client_data)) =>
        /\ result.kind = "dict"
        /\ result.dict["status"] = JBool(FALSE)
        /\ result.dict["pub_key_server"] = KeyObj(public_key)
        /\ result.dict["message"].t = "str"
        /\ result.dict["message"].v # ""
        /\ connected[caller]
        /\ sock[caller] # "closed"

\* handle_data has answered a well-encrypted JSON array
C9_Witness ==
    /\ dataPc = "done"
    /\ caller # 0
    /\ client_data.key = private_key
    /\ client_data.form = "array"
    /\ result.kind = "dict"

\* C10: for a decrypted object without a status field whose pub_key_server
\* field does not match the server's key, handle_data answers with the
\* 'This is your Public Key' response (what lines 104-109 build and encode),
\* whatever pub_key_client and action are.
C10_MismatchedServerKeyIsAnswered ==
    ( /\ dataPc = "done" /\ caller # 0
      /\ ~Malformed(client_data)
      /\ client_data.fields["status"] = Absent
      /\ Get(client_data.fields, "pub_key_server", "Unknown") # KeyText(public_key) ) =>
        result = JsonDumps(PublicKeyAnswer(public_key))

\* the bytes of the JSON text {"status": true, "pub_key_server": <the server's
\* public key, as text>, "message": "This is your Public Key"}
PublicKeyResponse(pub) ==
    Returned("bytes",
        [f \in Fields |->
            CASE f = "status" -> JBool(TRUE)
              [] f = "pub_key_server" -> KeyText(pub)
              [] f = "message" -> JStr("This is your Public Key")
              [] OTHER -> Absent])

\* C11: for a decrypted object without a status field whose action is missing
\* or 'Unknown', handle_data returns the 'This is your Public Key' response,
\* whatever the other fields are and whatever the key comparison finds.
C11_UnknownActionIsAnswered ==
    ( /\ dataPc = "done" /\ caller # 0
      /\ ~Malformed(client_data)
      /\ client_data.fields["status"] = Absent
      /\ Get(client_data.fields, "action", "Unknown") = JStr("Unknown") ) =>
        result = PublicKeyResponse(public_key)

\* C12: for a decrypted object with a status field, handle_data returns that
\* object: every field as it was sent, none added, whatever the keys and the
\* action in it are.
C12_StatusObjectPassesThrough ==
    ( /\ dataPc = "done" /\ caller # 0
      /\ ~Malformed(client_data)
      /\ client_data.fields["status"] # Absent ) =>
        result = Returned("dict", client_data.fields)

\* handle_data has returned an object with a status field that quotes a key
\* other than the server's and names an action
C12_Witness ==
    /\ dataPc = "done" /\ caller # 0
    /\ ~Malformed(client_data)
    /\ client_data.fields["status"] = JBool(TRUE)
    /\ client_data.fields["pub_key_client"] # Absent
    /\ client_data.fields["pub_key_client"] # KeyText(public_key)
    /\ client_data.fields["action"] = JStr("login")
    /\ result.kind = "dict"

\* the object has no status field, quotes the server's own key as
\* pub_key_server and names an action other than 'Unknown'
Unhandled(msg) ==
    /\ ~Malformed(msg)
    /\ msg.fields["status"] = Absent
    /\ Get(msg.fields, "pub_key_server", "Unknown") = KeyText(public_key)
    /\ Get(msg.fields, "action", "Unknown") # JStr("Unknown")

\* C17: handle_data returns None for an object without status that passes the
\* key comparison and carries an action other than 'Unknown', and in every
\* other case it ends with a response (a dict or bytes).
C17_OnlyUnhandledActionYieldsNothing ==
    dataPc = "done" /\ caller # 0 =>
        /\ Unhandled(client_data) => result.kind = "none"
        /\ ~Unhandled(client_data) => result.kind \in {"dict", "bytes"}
\* ------------------------------------------------------------------
\* C13  Every failure of key generation, key file writing or key file loading
\*      during the construction of AlgorithmHandler is surfaced: once
\*      construction has completed after such a failure, an error notification
\*      has been delivered to the operator.  (No failure propagates: every one
\*      is caught by `except Exception`.)
\*      Violated: message_callback is None throughout __init__ (line 26), so
\*      _notify_error delivers nothing.
C13_KeyFailureIsSurfaced ==
    (keyPc = "done" /\ keyErrors # {}) =>
        \E m \in operatorLog : m \in {"Error creating a key", "Error loading the lock"}

\* ------------------------------------------------------------------
\* C14  _initialize_RsaKeys never ends holding a public and a private key that
\*      are not of one pair (one set and the other unset included), and when
\*      a file was missing and nothing failed both files and both keys are of
\*      the one fresh pair.
\*      Violated: a whole public file beside a cut-short private file loads
\*      the public key (line 56) and then fails on the private one (line 57).
C14_KeysAreOfOnePair ==
    keyPc = "done" =>
        /\ public_key = private_key
        /\ (generating /\ keyErrors = {}) =>
              /\ pubFile = FreshKey /\ privFile = FreshKey
              /\ public_key = FreshKey

\* ------------------------------------------------------------------
\* C15  stop() is idempotent: a stop() called while running is false returns
\*      at once and changes nothing (no session closed, no task gathered, the
\*      list and the notifications as they were), whether it follows an
\*      earlier stop() or overlaps one still awaiting its closures.
C15_StopWhileStoppedIsNoOp ==
    [][\A s \in Stoppers :
          (stopPc[s] = "idle" /\ stopPc'[s] # "idle" /\ ~running) =>
              /\ stopPc'[s] = "returned"
              /\ UNCHANGED <<running, close_tasks, closePc, client_connections, log,
                             sock, connected, listeners, hPc>>]_vars

\* a second stop() has returned while the first still awaits its closures
C15_Witness ==
    /\ stopPc[1] = "gather"
    /\ stopPc[2] = "returned"
    /\ close_tasks[2] = <<>>
    /\ close_tasks[1] # <<>>

\* ------------------------------------------------------------------
\* C16  Under fair scheduling, a registered session whose connected flag is
\*      false is eventually out of client_connections with its socket
\*      closed; and when the handle_client task of an admitted session has
\*      terminated (returned or raised), the session is out of the list and
\*      its socket is closed.
C16_ClosedSessionIsRemoved ==
    /\ [](\A c \in Conns :
            (c \in created /\ hPc[c] \in {"done", "raised"}) =>
                /\ c \notin Range(client_connections)
                /\ sock[c] = "closed"
                /\ ~connected[c])
    /\ \A c \in Conns :
          (c \in Range(client_connections) /\ ~connected[c])
              ~> (c \notin Range(client_connections) /\ sock[c] = "closed")

\* one session ended by a peer close and its task returned, another ended by
\* the shutdown and its task left with the exception of the second removal
C16_Witness ==
    /\ created = Conns
    /\ hPc[1] = "done"
    /\ hPc[2] = "raised"
    /\ client_connections = <<>>
    /\ \A c \in Conns : sock[c] = "closed"

\* ------------------------------------------------------------------
\* C18  At most one listening socket is bound and one auto-unblock task
\*      started, when start() calls overlap and stop() has not been called.
\*      Violated: the running check (line 25) and the assignment (line 31)
\*      are separated by the await of the 'Starting' notification.
C18_OneListener ==
    (\A s \in Stoppers : stopPc[s] = "idle") =>
        /\ listeners <= 1
        /\ unblockTasks <= 1

\* ------------------------------------------------------------------
\* C19  After stop() has returned, and while no start() has been called
\*      since, the registry is empty: no session is added to it.
\*      Violated: stop() does not close the listening server, which goes on
\*      accepting, and handle_client never looks at running.
C19_StoppedServerAdmitsNothing ==
    (/\ ~running
     /\ \E s \in Stoppers : stopPc[s] = "done"
     /\ \A s \in Stoppers : stopPc[s] \in {"idle", "returned", "done"}
     /\ \A t \in Starters : startPc[t] \in {"idle", "serving", "done", "faulted"})
        => client_connections = <<>>

\* ------------------------------------------------------------------
\* C20  running is true only while a start() is binding, serving, or backing
\*      off after a fault; once the faulted start() has returned it is false.
\*      Violated: no path of start() resets self.running.
C20_RunningOnlyWhileListening ==
    running =>
        \E t \in Starters :
            startPc[t] \in {"binding", "serving", "oserror_sleep", "error_notify"}

====
